---- MODULE Spec2Model ----
(***************************************************************************)
(* Control-plane path tracer: the trace loop of PathTracer.trace_path,     *)
(* the inventory resolver it uses and the scoped driver session of each    *)
(* hop, modelled as a state machine.                                       *)
(*                                                                         *)
(* IPv4 addresses are AddrBits-wide naturals; a subnet is <<addr, plen>>   *)
(* as written in the inventory (host bits may be set, strict=False).       *)
(* Python None is "None" for strings, NoIP for addresses and 0 for a       *)
(* device reference; devices are referenced by their index in Inventory.   *)
(***************************************************************************)
EXTENDS Integers, Sequences, FiniteSets, TLC

\* ---------------------------------------------------------------- bounds
MaxHops == 3
AddrBits == 4

\* ------------------------------------------------------------ None values
NoIP == -1
NoDevice == 0
\* a next hop that is an interface name ("Null0", "GigabitEthernet0/1"), never an IP
IfaceName == -2

\* --------------------------------------------------------------- ip_utils
Pow2(n) == 2^n

is_valid_ip(ip) == ip >= 0 /\ ip < Pow2(AddrBits)

\* the network address of a subnet written with strict=False
NetworkBase(subnet) == subnet[1] \div Pow2(AddrBits - subnet[2])

ip_in_network(ip, subnet) ==
    /\ is_valid_ip(ip)
    /\ ip \div Pow2(AddrBits - subnet[2]) = NetworkBase(subnet)

get_prefix_length(subnet) == subnet[2]

\* -------------------------------------------------------------- inventory
Dev(h, ip, v, s, t, c, ctxs, subs, dctx) ==
    [hostname |-> h, management_ip |-> ip, vendor |-> v, site |-> s,
     device_type |-> t, credentials_ref |-> c, logical_contexts |-> ctxs,
     subnets |-> subs, default_context |-> dctx]

\* a subnet of the inventory document, given by its number of host bits
Net(addr, hostbits) == <<addr, AddrBits - hostbits>>

Inventory ==
    << Dev("R1",  1, "cisco_ios",  "nyc",  "router",   "default", <<"global", "vrfA">>, << Net(8, 2) >>,  "global"),
       Dev("R2",  2, "cisco_ios",  "nyc",  "router",   "enable",  <<"global", "vrfA">>, << Net(12, 2) >>, "global"),
       Dev("R2b", 2, "arista_eos", "sfo",  "router",   "default", <<"global">>,         << Net(12, 2) >>, "global"),
       Dev("FW1", 3, "paloalto",   "None", "firewall", "default", <<"vr1">>,            << Net(12, 1) >>, "vr1"),
       Dev("FW2", 4, "cisco_asa",  "sfo",  "unknown",  "default", <<"global">>,         << >>,            "global"),
       Dev("FTD", 6, "cisco_ftd",  "sfo",  "firewall", "default", <<"global">>,         << >>,            "global"),
       Dev("R5",  6, "fortinet",   "nyc",  "unknown",  "default", <<"global">>,         << >>,            "global"),
       Dev("R6",  6, "aruba",      "nyc",  "router",   "missing", <<"global">>,         << >>,            "global"),
       Dev("R7",  8, "juniper_srx","nyc",  "router",   "nokey",   <<"global">>,         << >>,            "global"),
       Dev("R8",  8, "cisco_ios",  "nyc",  "router",   "default", <<"global">>,         << >>,            "global") >>

DeviceIds == 1..Len(Inventory)

\* CredentialManager.credentials: name -> CredentialSet (has_password, has_key, secret)
Cred(p, k, s) == [has_password |-> p, has_key |-> k, secret |-> s]
CredentialStore ==
    [default |-> Cred(TRUE, FALSE, FALSE),
     enable  |-> Cred(TRUE, FALSE, TRUE),
     nokey   |-> Cred(FALSE, FALSE, FALSE)]

\* ------------------------------------------------------ DeviceInventory
VARIABLES
    devices,        \* DeviceInventory.devices
    subnet_map,     \* DeviceInventory.subnet_map, its keys in insertion order
    load_warnings,  \* DeviceInventory._load_warnings
    found           \* the last inventory lookup made on its own, and its result

inventory_vars == <<devices, subnet_map, load_warnings, found>>

\* devices are handed around by their index in `devices`
AllIds == [i \in 1..Len(devices) |-> i]

find_device_by_ip(ip) ==
    SelectSeq(AllIds, LAMBDA d : devices[d].management_ip = ip)

find_device_by_hostname(hostname) ==
    LET hits == {d \in 1..Len(devices) : devices[d].hostname = hostname}
    IN  IF hits = {} THEN NoDevice
        ELSE CHOOSE d \in hits : \A e \in hits : d <= e

\* add_device: one slot <<device, k>> per subnet entry of each device of devs,
\* appended to subnet_map[subnet] in this order (device by device, entry by entry)
SubnetSlots(devs) ==
    UNION { {<<d, k>> : k \in 1..Len(devs[d].subnets)} : d \in 1..Len(devs) }

SlotSubnet(devs, p) == devs[p[1]].subnets[p[2]]

SlotBefore(p, q) == p[1] < q[1] \/ (p[1] = q[1] /\ p[2] < q[2])

\* the slot that created the subnet_map key of slot p: the first slot written
\* with that subnet string
KeySlot(devs, p) ==
    CHOOSE q \in SubnetSlots(devs) :
        /\ SlotSubnet(devs, q) = SlotSubnet(devs, p)
        /\ \A r \in SubnetSlots(devs) :
              SlotSubnet(devs, r) = SlotSubnet(devs, p) => ~SlotBefore(r, q)

\* subnet_map once add_device has run for every device of devs in order: the
\* keys in the order they were created, under each key the devices in the
\* order they were appended
SubnetMapOf(devs) ==
    LET slots == SubnetSlots(devs)
        keys == {p \in slots : KeySlot(devs, p) = p}
    IN  [n \in 1..Cardinality(keys) |->
            LET key == CHOOSE p \in keys : Cardinality({q \in keys : SlotBefore(q, p)}) = n - 1
                members == {q \in slots : SlotSubnet(devs, q) = SlotSubnet(devs, key)}
            IN  [subnet |-> SlotSubnet(devs, key),
                 devices |-> [m \in 1..Cardinality(members) |->
                                (CHOOSE q \in members :
                                    Cardinality({r \in members : SlotBefore(r, q)}) = m - 1)[1]]]]

\* the warnings of add_device, by the place they are raised at: <<j, 0, 0, i, 0>>
\* when device j is added with the management IP of an earlier device i of another
\* hostname, <<j, 1, k, i, m>> when subnet k of device j is already under its key
\* for device i (entry m) and both have the same site tag
WarningKeys(devs) ==
    { w \in { <<j, 0, 0, i, 0>> : j \in 1..Len(devs), i \in 1..Len(devs) } :
            /\ w[4] < w[1]
            /\ devs[w[1]].management_ip # NoIP
            /\ devs[w[4]].management_ip = devs[w[1]].management_ip
            /\ devs[w[4]].hostname # devs[w[1]].hostname }
    \cup
    { w \in { <<q[1], 1, q[2], p[1], p[2]>> : q \in SubnetSlots(devs),
                                                 p \in SubnetSlots(devs) } :
            /\ SlotBefore(<<w[4], w[5]>>, <<w[1], w[3]>>)
            /\ SlotSubnet(devs, <<w[4], w[5]>>) = SlotSubnet(devs, <<w[1], w[3]>>)
            /\ devs[w[4]].site # "None"
            /\ devs[w[1]].site # "None"
            /\ devs[w[4]].site = devs[w[1]].site }

WarningBefore(v, w) ==
    \E n \in 1..5 : v[n] < w[n] /\ \A m \in 1..(n - 1) : v[m] = w[m]

Warning(devs, w) ==
    IF w[2] = 0
    THEN [kind |-> "Duplicate management IP", ip |-> devs[w[1]].management_ip,
          existing |-> devs[w[4]].hostname, device |-> devs[w[1]].hostname]
    ELSE [kind |-> "Overlapping subnet", subnet |-> SlotSubnet(devs, <<w[1], w[3]>>),
          site |-> devs[w[1]].site,
          existing |-> devs[w[4]].hostname, device |-> devs[w[1]].hostname]

\* _load_warnings once add_device has run for every device of devs in order
WarningsOf(devs) ==
    LET ks == WarningKeys(devs)
    IN  [n \in 1..Cardinality(ks) |->
            Warning(devs, CHOOSE w \in ks : Cardinality({v \in ks : WarningBefore(v, w)}) = n - 1)]

\* add_device(device): the device is appended, its subnets are entered in
\* subnet_map and the duplicate / overlap warnings are recorded
add_device(device) ==
    /\ devices' = Append(devices, device)
    /\ subnet_map' = SubnetMapOf(Append(devices, device))
    /\ load_warnings' = WarningsOf(Append(devices, device))

\* the places <<key, position>> of the device lists of subnet_map
MapEntries ==
    UNION { {<<e, m>> : m \in 1..Len(subnet_map[e].devices)} : e \in 1..Len(subnet_map) }

\* every device of a containing subnet, whatever its prefix length
AnyContainingSubnet(ip) ==
    LET matches == {e \in MapEntries : ip_in_network(ip, subnet_map[e[1]].subnet)}
    IN  [n \in 1..Cardinality(matches) |->
            LET e == CHOOSE f \in matches :
                        Cardinality({g \in matches : SlotBefore(g, f)}) = n - 1
            IN  subnet_map[e[1]].devices[e[2]]]

\* matches = [(prefix_len, device)] over every subnet_map entry containing ip, in
\* the order of `for subnet, devices in subnet_map.items(): for device in devices`;
\* the result keeps the devices of the longest prefix, in that order
find_device_for_subnet(ip) ==
    LET matches == {e \in MapEntries : ip_in_network(ip, subnet_map[e[1]].subnet)}
    IN  IF matches = {} THEN << >>
        ELSE LET longest == CHOOSE n \in {get_prefix_length(subnet_map[e[1]].subnet) : e \in matches} :
                                \A e \in matches : get_prefix_length(subnet_map[e[1]].subnet) <= n
                 kept == {e \in matches : get_prefix_length(subnet_map[e[1]].subnet) = longest}
             IN  [n \in 1..Cardinality(kept) |->
                    LET e == CHOOSE f \in kept :
                                Cardinality({g \in kept : SlotBefore(g, f)}) = n - 1
                    IN  subnet_map[e[1]].devices[e[2]]]

\* ------------------------------------------------------- _resolve_device
\* several candidates: the first one is taken
ResolveTakesFirst(ip, prev_device) ==
    LET byip == find_device_by_ip(ip)
        candidates == IF byip = << >> THEN find_device_for_subnet(ip) ELSE byip
    IN  IF Len(candidates) = 0
        THEN [device |-> NoDevice, status |-> "not_found", candidates |-> << >>]
        ELSE [device |-> candidates[1], status |-> "resolved", candidates |-> candidates]

\* stage 4 is missing: several candidates are always ambiguous
ResolveWithoutSiteAffinity(ip, prev_device) ==
    LET byip == find_device_by_ip(ip)
        candidates == IF byip = << >> THEN find_device_for_subnet(ip) ELSE byip
    IN  IF Len(candidates) = 0
        THEN [device |-> NoDevice, status |-> "not_found", candidates |-> << >>]
        ELSE IF Len(candidates) = 1
        THEN [device |-> candidates[1], status |-> "resolved", candidates |-> candidates]
        ELSE [device |-> NoDevice, status |-> "ambiguous", candidates |-> candidates]

\* prev_device is the device of previous_hop, NoDevice when there is none
_resolve_device(ip, prev_device) ==
    LET byip == find_device_by_ip(ip)
        candidates == IF byip = << >> THEN find_device_for_subnet(ip) ELSE byip
    IN  IF Len(candidates) = 0
        THEN [device |-> NoDevice, status |-> "not_found", candidates |-> << >>]
        ELSE IF Len(candidates) = 1
        THEN [device |-> candidates[1], status |-> "resolved", candidates |-> candidates]
        ELSE IF prev_device # NoDevice /\ devices[prev_device].site # "None"
        THEN LET same_site == SelectSeq(candidates,
                                        LAMBDA c : devices[c].site = devices[prev_device].site)
             IN  IF Len(same_site) = 1
                 THEN [device |-> same_site[1], status |-> "resolved_by_site", candidates |-> candidates]
                 ELSE IF Len(same_site) > 1
                 THEN [device |-> NoDevice, status |-> "ambiguous", candidates |-> same_site]
                 ELSE [device |-> NoDevice, status |-> "ambiguous", candidates |-> candidates]
        ELSE [device |-> NoDevice, status |-> "ambiguous", candidates |-> candidates]

\* the candidates are dropped from the response
SerializeNothing(candidates) == << >>

_serialize_candidates(candidates) ==
    [i \in 1..Len(candidates) |->
        [hostname |-> devices[candidates[i]].hostname,
         management_ip |-> devices[candidates[i]].management_ip,
         site |-> devices[candidates[i]].site,
         vendor |-> devices[candidates[i]].vendor]]

\* the next device always runs in its default context
AlwaysDefaultContext(current_context, next_device) ==
    devices[next_device].default_context

_determine_next_context(current_context, next_device) ==
    IF \E i \in 1..Len(devices[next_device].logical_contexts) :
          devices[next_device].logical_contexts[i] = current_context
    THEN current_context
    ELSE devices[next_device].default_context

get_credentials(ref) ==
    IF ref \in DOMAIN CredentialStore
    THEN [found |-> TRUE, cred |-> CredentialStore[ref]]
    ELSE [found |-> FALSE, cred |-> Cred(FALSE, FALSE, FALSE)]

FIREWALL_VENDORS == {"paloalto", "paloalto_panos", "cisco_asa", "cisco_ftd", "juniper_srx", "fortinet"}

_is_firewall(d) ==
    devices[d].vendor \in FIREWALL_VENDORS \/ devices[d].device_type = "firewall"

\* _get_driver: vendor tag -> driver class, "None" for an unsupported vendor
_get_driver(vendor) ==
    CASE vendor \in {"cisco_ios", "cisco_iosxe", "cisco_nxos"} -> "CiscoIOSDriver"
      [] vendor = "arista_eos"                                 -> "AristaEOSDriver"
      [] vendor \in {"paloalto", "paloalto_panos"}             -> "PaloAltoDriver"
      [] vendor \in {"aruba", "aruba_os"}                      -> "ArubaDriver"
      [] vendor = "cisco_asa"                                  -> "CiscoASADriver"
      [] vendor = "cisco_ftd"                                  -> "CiscoFTDDriver"
      [] vendor \in {"juniper_srx", "juniper_junos"}           -> "JuniperSRXDriver"
      [] OTHER                                                 -> "None"

\* ------------------------------------------------------------- exceptions
Exc(cls, msg) == [cls |-> cls, msg |-> msg]
NoExc == Exc("None", "None")

\* a handler that catches the tracer's own exception hierarchy only
CatchesPathTraceExceptionOnly(e) ==
    e.cls \in {"DeviceNotFoundError", "AuthenticationError", "DeviceConnectionError",
               "CommandError"}

\* `except Exception` of trace_path: every class raised in the walk derives from Exception
Catches(e) ==
    e.cls \in {"DeviceNotFoundError", "ValueError", "AuthenticationError",
               "DeviceConnectionError", "NotImplementedError", "CommandError"}

\* ----------------------------------------------------------------- routes
Route(nh, kind, ifc) == [next_hop |-> nh, next_hop_type |-> kind, outgoing_interface |-> ifc]
NoRoute == Route(NoIP, "None", "None")

\* an interface next hop taken for a connected route
InterfaceCountsAsReached(route, target_ip) ==
    route.next_hop_type \in {"connected", "local", "interface"} \/ route.next_hop = target_ip

\* a route whose next hop is the target is followed further
ReachedByKindOnly(route, target_ip) == route.next_hop_type \in {"connected", "local"}

is_destination_reached(route, target_ip) ==
    route.next_hop_type \in {"connected", "local"} \/ route.next_hop = target_ip

\* a reject route is not taken for a black hole
NullOnlyIsBlackHole(route) == route.next_hop_type = "null"

IsBlackHole(route) == route.next_hop_type \in {"null", "reject"}

\* NatResult: absent, present without a DNAT translation, or with dnat.translated_ip
NatRes(present, dnat) == [present |-> present, dnat |-> dnat]
NoNat == NatRes(FALSE, NoIP)

HasDnat(nat) == nat.present /\ nat.dnat # NoIP

\* the DNAT translation is ignored
IgnoreDnat(nat, wd) == wd

\* orchestrator lines 176-179: the working destination after a hop's NAT result
FollowDnat(nat, wd) == IF HasDnat(nat) THEN nat.dnat ELSE wd

\* ---------------------------------------------------- requests and answers
Dest == 14
NatIP == 10

Req(src, start, ctx) ==
    [source_ip |-> src, destination_ip |-> Dest, start_device |-> start, initial_context |-> ctx]
Requests ==
    { Req(9, "None", "None"), Req(13, "None", "None"), Req(14, "None", "None"),
      Req(0, "None", "None"), Req(9, "R2", "vrfA"), Req(9, "FTD", "None"),
      Req(9, "R5", "None"), Req(9, "R6", "None"), Req(9, "R7", "None"),
      Req(9, "nope", "None"), Req(9, "R2", "vrfX") }

\* the next-hop IPs the routing table of device d can point at: neighbours by
\* management IP or by subnet, the destinations, and an address nobody owns
Neighbours(d) ==
    CASE devices[d].hostname = "R1"  -> {2, 13, 6}
      [] devices[d].hostname = "R2"  -> {1, 2}
      [] devices[d].hostname = "R2b" -> {1, 3}
      [] devices[d].hostname = "FW1" -> {2, 4}
      [] devices[d].hostname = "FW2" -> {1, 2, 8}
      [] devices[d].hostname = "R9"  -> {5, 7}
      [] devices[d].hostname = "R3"  -> {5}
      [] OTHER -> {}
NextHopIPs(d) == Neighbours(d) \cup {0, Dest, NatIP}

\* what get_route can answer on device d: a next-hop IP out of Gi0/1, one route
\* without an outgoing interface, the interface / connected / local / null /
\* reject kinds, and a null route whose next hop is written as the destination
\* address ("via <ip> on Null0")
RouteAnswers(d) ==
    { Route(nh, "ip", "Gi0/1") : nh \in NextHopIPs(d) }
    \cup { Route(2, "ip", "None"),
           Route(IfaceName, "interface", "Gi0/1"), Route(IfaceName, "connected", "Gi0/2"),
           Route(IfaceName, "local", "None"), Route(IfaceName, "null", "None"),
           Route(IfaceName, "reject", "None"), Route(Dest, "null", "Null0") }

\* what lookup_nat can answer on device d: source NAT only, or the DNAT rule of d
DnatTarget(d) == IF devices[d].hostname = "FW1" THEN NatIP ELSE Dest
NatAnswers(d) ==
    IF _is_firewall(d)
    THEN { NatRes(TRUE, NoIP), NatRes(TRUE, DnatTarget(d)) }
    ELSE { NoNat }

\* ----------------------------------------------------------- HTTP adapter
VARIABLES
    document,       \* the inventory file: whether it exists and its device entries
    http            \* the POST /traceroute/device-based request being served

service_vars == <<document, http>>

\* ------------------------------------------------------------------ state
VARIABLES
    req,            \* arguments of the trace_path call
    max_hops,       \* PathTracer.max_hops
    pc,             \* position of the call
    path,           \* the TracePath being built
    current_device, current_context, visited, hop_sequence,
    working_destination, previous_egress_interface,
    driver,         \* the driver object of the hop being queried
    result,         \* HopQueryResult under construction / returned by _query_device
    exc,            \* exception propagating out of the `with driver` block
    sessions,       \* hop numbers whose remote session is established and not disconnected
    lookups,        \* history of get_route calls: device, destination, context
    subqueries,     \* the enrichment sub-queries made at the hop being queried
    thrown,         \* the exception that reached the handler of trace_path
    hops_at_throw,  \* path.hops when it was raised
    turn,           \* the trace_path call (thread) that is running
    parked          \* the frames of the calls that are not running

vars == <<req, max_hops, pc, path, current_device, current_context, visited,
          hop_sequence, working_destination, previous_egress_interface,
          driver, result, exc, sessions, lookups, subqueries, thrown, hops_at_throw,
          turn, parked, inventory_vars, service_vars>>

walk == <<current_device, current_context, visited, hop_sequence,
          working_destination, previous_egress_interface>>

NoDriver == [cls |-> "None", connection |-> FALSE, connected |-> FALSE]
\* no sub-query was made; `policy` is what the device's rulebase says of the flow
NoSubqueries == [called |-> {}, raised |-> {}, policy |-> "None"]
NoResult == [route |-> NoRoute, egress_detail |-> "None", ingress_detail |-> "None",
             policy_result |-> "None", nat_result |-> NoNat]

TracePath ==
    [hops |-> << >>, status |-> "incomplete", error_message |-> "None",
     total_time_set |-> FALSE,
     metadata |-> [has_candidates |-> FALSE, candidates |-> << >>, ambiguous_hop_sequence |-> 0]]

\* the frame (local variables) of a trace_path call that was entered with the
\* arguments r and has not run a statement yet
Entered(r) ==
    [req |-> r, pc |-> "start", path |-> TracePath, current_device |-> NoDevice,
     current_context |-> "None", visited |-> {}, hop_sequence |-> 0,
     working_destination |-> NoIP, previous_egress_interface |-> "None",
     driver |-> NoDriver, result |-> NoResult, exc |-> NoExc, sessions |-> {},
     lookups |-> << >>, subqueries |-> NoSubqueries, thrown |-> NoExc,
     hops_at_throw |-> << >>]

InitFrame(f) ==
    /\ req = f.req
    /\ pc = f.pc
    /\ path = f.path
    /\ current_device = f.current_device
    /\ current_context = f.current_context
    /\ visited = f.visited
    /\ hop_sequence = f.hop_sequence
    /\ working_destination = f.working_destination
    /\ previous_egress_interface = f.previous_egress_interface
    /\ driver = f.driver
    /\ result = f.result
    /\ exc = f.exc
    /\ sessions = f.sessions
    /\ lookups = f.lookups
    /\ subqueries = f.subqueries
    /\ thrown = f.thrown
    /\ hops_at_throw = f.hops_at_throw

InitCall(r) == InitFrame(Entered(r))

\* the tracer is called directly: no HTTP request is being served
NoDocument == [exists |-> FALSE, devices |-> << >>]
NoRequest == [pc |-> "none", source |-> NoIP, destination |-> NoIP,
              code |-> 0, error |-> "None"]
Unserved == document = NoDocument /\ http = NoRequest

\* no lookup was made on its own
NoLookup == [call |-> "None", arg |-> NoIP, result |-> << >>]

\* the inventory document has been loaded: add_device has run for each of its
\* devices in order
Loaded ==
    /\ devices = Inventory
    /\ subnet_map = SubnetMapOf(Inventory)
    /\ load_warnings = WarningsOf(Inventory)
    /\ found = NoLookup
    /\ Unserved

\* one trace_path call on a PathTracer configured with max_hops
Init ==
    /\ \E r \in Requests : InitCall(r)
    /\ max_hops \in 1..MaxHops
    /\ turn = 1
    /\ parked = << >>
    /\ Loaded

\* trace_path returns the trace p: the loop breaks (or the call returns early)
\* and the elapsed time is set (lines 78, 84 and the finally clause)
Return(p) ==
    /\ path' = [p EXCEPT !.total_time_set = TRUE]
    /\ pc' = "returned"

\* an exception reaches the except/finally clauses of trace_path
Handle(e) ==
    /\ thrown' = e
    /\ hops_at_throw' = path.hops
    /\ IF Catches(e)
       THEN Return([path EXCEPT !.status = "error", !.error_message = e.msg])
       ELSE /\ path' = [path EXCEPT !.total_time_set = TRUE]
            /\ pc' = "raised"

\* --------------------------------------------------------- trace_path
\* lines 92-102: the walk's local state before the loop
Begin(d) ==
    /\ current_device' = d
    /\ current_context' = IF req.initial_context # "None" THEN req.initial_context
                          ELSE devices[d].default_context
    /\ visited' = {}
    /\ hop_sequence' = 1
    /\ working_destination' = req.destination_ip
    /\ previous_egress_interface' = "None"
    /\ pc' = "loop"
    /\ UNCHANGED <<path, thrown, hops_at_throw>>

WithCandidates(p, st, msg, cands) ==
    [p EXCEPT !.status = st, !.error_message = msg,
              !.metadata.has_candidates = TRUE,
              !.metadata.candidates = _serialize_candidates(cands)]

\* lines 61-102: find the starting device
Start ==
    /\ pc = "start"
    /\ IF req.start_device # "None"
       THEN LET d == find_device_by_hostname(req.start_device)
            IN  IF d = NoDevice
                THEN /\ Handle(Exc("DeviceNotFoundError", "Start device not found in inventory"))
                     /\ UNCHANGED walk
                ELSE Begin(d)
       ELSE LET r == _resolve_device(req.source_ip, NoDevice)
            IN  IF r.status = "not_found"
                THEN /\ Return(WithCandidates(path, "needs_input",
                                              "Source IP not found in inventory", << >>))
                     /\ UNCHANGED <<walk, thrown, hops_at_throw>>
                ELSE IF r.status = "ambiguous"
                THEN /\ Return(WithCandidates(path, "needs_input",
                                              "Source IP matches multiple devices", r.candidates))
                     /\ UNCHANGED <<walk, thrown, hops_at_throw>>
                ELSE Begin(r.device)
    /\ UNCHANGED <<service_vars, inventory_vars, turn, parked, subqueries, req, max_hops, driver, result, exc, sessions, lookups>>

\* the loop test never fires
LoopNeverDetected(key, seen) == FALSE

\* the loop test compares the device only, not the context
LoopIgnoresContext(key, seen) == key[1] \in {k[1] : k \in seen}

\* line 108: the loop test
LoopDetected(key, seen) == key \in seen

\* the hop limit test off by one
HopLimitOffByOne(seq, limit) == seq > limit + 1

\* the walk stops one hop early
HopLimitAtLimit(seq, limit) == seq >= limit

\* line 117: the hop limit test
HopLimitExceeded(seq, limit) == seq > limit

\* the sequence counter skips a number
NextSequenceSkips(seq) == seq + 2

\* line 225
NextSequence(seq) == seq + 1

\* lines 105-121: top of the tracing loop
LoopTop ==
    /\ pc = "loop"
    /\ LET device_context_key == <<devices[current_device].management_ip, current_context>>
       IN  IF LoopDetected(device_context_key, visited)
           THEN /\ Return([path EXCEPT !.status = "loop_detected",
                                       !.error_message = "Routing loop detected"])
                /\ UNCHANGED visited
           ELSE /\ visited' = visited \cup {device_context_key}
                /\ IF HopLimitExceeded(hop_sequence, max_hops)
                   THEN Return([path EXCEPT !.status = "max_hops_exceeded",
                                            !.error_message = "Maximum hops exceeded"])
                   ELSE pc' = "query" /\ UNCHANGED path
    /\ UNCHANGED <<service_vars, inventory_vars, turn, parked, subqueries, req, max_hops, current_device, current_context, hop_sequence,
                   working_destination, previous_egress_interface,
                   driver, result, exc, sessions, lookups, thrown, hops_at_throw>>

\* _query_device lines 258-263: credentials and driver for the current device
QueryDevice ==
    /\ pc = "query"
    /\ LET creds == get_credentials(devices[current_device].credentials_ref)
           cls == _get_driver(devices[current_device].vendor)
       IN  IF ~creds.found
           THEN Handle(Exc("ValueError", "No credentials found")) /\ UNCHANGED driver
           ELSE IF cls = "None"
           THEN Handle(Exc("ValueError", "Unsupported vendor")) /\ UNCHANGED driver
           ELSE /\ driver' = [cls |-> cls, connection |-> FALSE, connected |-> FALSE]
                /\ pc' = "connect"
                /\ UNCHANGED <<path, thrown, hops_at_throw>>
    /\ UNCHANGED <<service_vars, inventory_vars, turn, parked, subqueries, req, max_hops, walk, result, exc, sessions, lookups>>

\* what the remote end can do to a connect() of this driver with these credentials
ConnectOutcomes(cls, cred) ==
    {"ok", "auth", "timeout", "refused"}
    \cup (IF cls = "CiscoIOSDriver" /\ cred.secret THEN {"enable_fails"} ELSE {})

\* NetworkDriver.__enter__ -> connect(); a raise here skips __exit__
Connect ==
    /\ pc = "connect"
    /\ LET cred == get_credentials(devices[current_device].credentials_ref).cred
       IN  IF driver.cls = "CiscoFTDDriver"
           THEN /\ Handle(Exc("NotImplementedError", "Cisco FTD requires FMC API integration"))
                /\ UNCHANGED <<driver, sessions>>
           ELSE IF ~cred.has_key /\ ~cred.has_password
           THEN /\ Handle(Exc("DeviceConnectionError",
                              "Failed to connect: No valid authentication method provided"))
                /\ UNCHANGED <<driver, sessions>>
           ELSE \E outcome \in ConnectOutcomes(driver.cls, cred) :
                   CASE outcome = "auth" ->
                          /\ Handle(Exc("AuthenticationError", "Authentication failed"))
                          /\ UNCHANGED <<driver, sessions>>
                     [] outcome = "timeout" ->
                          /\ Handle(Exc("DeviceConnectionError", "Connection timeout"))
                          /\ UNCHANGED <<driver, sessions>>
                     [] outcome = "refused" ->
                          /\ Handle(Exc("DeviceConnectionError", "Failed to connect"))
                          /\ UNCHANGED <<driver, sessions>>
                     [] outcome = "enable_fails" ->
                          \* ConnectHandler returned, enable() raised: self.connection is set
                          /\ driver' = [driver EXCEPT !.connection = TRUE]
                          /\ sessions' = sessions \cup {hop_sequence}
                          /\ Handle(Exc("DeviceConnectionError", "Failed to connect: enable failed"))
                     [] OTHER ->
                          /\ driver' = [driver EXCEPT !.connection = TRUE, !.connected = TRUE]
                          /\ sessions' = sessions \cup {hop_sequence}
                          /\ pc' = "get_route"
                          /\ UNCHANGED <<path, thrown, hops_at_throw>>
    /\ UNCHANGED <<service_vars, inventory_vars, turn, parked, subqueries, req, max_hops, walk, result, exc, lookups>>

\* line 267: driver.get_route(destination, context) inside the with block
GetRoute ==
    /\ pc = "get_route"
    /\ lookups' = Append(lookups, [device |-> current_device,
                                   destination |-> working_destination,
                                   context |-> current_context])
    /\ IF ~driver.connected
       THEN /\ exc' = Exc("DeviceConnectionError", "Not connected")
            /\ result' = NoResult
            /\ pc' = "exit"
       ELSE \/ \E r \in RouteAnswers(current_device) :
                 /\ result' = [NoResult EXCEPT !.route = r]
                 /\ pc' = "enrich"
                 /\ UNCHANGED exc
            \/ /\ result' = NoResult
               /\ pc' = "exit"
               /\ UNCHANGED exc
            \/ /\ result' = NoResult
               /\ exc' = Exc("CommandError", "Failed to get route")
               /\ pc' = "exit"
    /\ subqueries' = NoSubqueries
    /\ UNCHANGED <<service_vars, inventory_vars, turn, parked, req, max_hops, path, walk, driver, sessions,
                   thrown, hops_at_throw>>

\* the best-effort sub-queries of a hop; a sub-query in `fails` raises (or returns
\* None, which leaves the same field value), the others answer
EnrichmentCalls(d) ==
    IF _is_firewall(d) THEN {"egress", "ingress", "izone", "ezone", "policy", "nat"}
    ELSE {"egress", "ingress"}

\* the action the firewall prints for the matched rule, by driver class
RawPolicyActions(cls) ==
    CASE cls = "PaloAltoDriver"   -> {"allow", "deny", "drop"}
      [] cls = "CiscoASADriver"   -> {"allow", "drop"}
      [] cls = "JuniperSRXDriver" -> {"permit", "deny", "reject"}
      [] OTHER                    -> {"None"}

\* PolicyResult.action as the parser of the driver class builds it from the
\* printed action: action_map.get(raw_action, raw_action)
parse_policy_action(cls, raw_action) ==
    CASE cls = "PaloAltoDriver" ->
           IF raw_action = "allow" THEN "permit" ELSE raw_action
      [] cls = "CiscoASADriver" ->
           IF raw_action = "allow" THEN "permit"
           ELSE IF raw_action = "drop" THEN "deny" ELSE raw_action
      [] OTHER -> raw_action

\* what lookup_security_policy of device d can find printed
PolicyAnswers(d) ==
    IF _is_firewall(d) THEN RawPolicyActions(_get_driver(devices[d].vendor)) ELSE {"None"}

\* the answer is kept although the sub-query raised
BestEffortKeepsAnswer(raises, answer) == answer

\* try: x = call() except Exception: pass  -- a raise leaves the field None
BestEffort(raises, answer) == IF raises THEN "None" ELSE answer

\* lines 275-335: best-effort enrichment of the hop; of the sub-queries that are
\* made, those in `fails` raise (or return None, which leaves the same value)
Enrich ==
    /\ pc = "enrich"
    /\ LET route == result.route
           ingress_interface == previous_egress_interface
       IN  \E pol \in PolicyAnswers(current_device), nat \in NatAnswers(current_device),
              fails \in SUBSET EnrichmentCalls(current_device) :
              LET fw == _is_firewall(current_device)
                  egress_called == route.outgoing_interface # "None"
                  ingress_called == ingress_interface # "None"
                  izone_called == fw /\ ingress_interface # "None"
                  ezone_called == fw /\ route.outgoing_interface # "None"
                  egress_detail == IF egress_called
                                   THEN BestEffort("egress" \in fails, "detail") ELSE "None"
                  ingress_detail == IF ingress_called
                                    THEN BestEffort("ingress" \in fails, "detail") ELSE "None"
                  ingress_zone == IF izone_called
                                  THEN BestEffort("izone" \in fails, "trust") ELSE "None"
                  egress_zone == IF ezone_called
                                 THEN BestEffort("ezone" \in fails, "untrust") ELSE "None"
                  policy_called == /\ fw /\ ingress_zone # "None" /\ egress_zone # "None"
                                   /\ req.source_ip # NoIP
                  policy_result == IF policy_called
                                   THEN BestEffort("policy" \in fails,
                                                   parse_policy_action(driver.cls, pol))
                                   ELSE "None"
                  nat_called == fw /\ req.source_ip # NoIP
                  nat_result == IF nat_called /\ "nat" \notin fails THEN nat ELSE NoNat
                  called == {c \in EnrichmentCalls(current_device) :
                                \/ c = "egress" /\ egress_called
                                \/ c = "ingress" /\ ingress_called
                                \/ c = "izone" /\ izone_called
                                \/ c = "ezone" /\ ezone_called
                                \/ c = "policy" /\ policy_called
                                \/ c = "nat" /\ nat_called}
              IN  /\ fails \subseteq called
                  /\ result' = [route |-> route, egress_detail |-> egress_detail,
                                ingress_detail |-> ingress_detail,
                                policy_result |-> policy_result, nat_result |-> nat_result]
                  /\ subqueries' = [called |-> called, raised |-> fails, policy |-> pol]
    /\ pc' = "exit"
    /\ UNCHANGED <<service_vars, inventory_vars, turn, parked, req, max_hops, path, walk, driver, exc,
                   sessions, lookups, thrown, hops_at_throw>>

\* disconnect(): `if self.connection:` close it, then _connected = False, connection = None
disconnect(drv) == [drv EXCEPT !.connection = FALSE, !.connected = FALSE]

\* the remote session is never closed
SessionKeptOpen(drv, open, seq) == open

\* the remote sessions left open once disconnect() of hop seq's driver has run
SessionsAfterDisconnect(drv, open, seq) ==
    IF drv.connection THEN open \ {seq} ELSE open

\* NetworkDriver.__exit__ -> disconnect(), then the exception (if any) goes on
\* through _query_device's re-raise to trace_path's handler
Exit ==
    /\ pc = "exit"
    /\ driver' = disconnect(driver)
    /\ sessions' = SessionsAfterDisconnect(driver, sessions, hop_sequence)
    /\ IF exc # NoExc
       THEN Handle(exc)
       ELSE pc' = "record" /\ UNCHANGED <<path, thrown, hops_at_throw>>
    /\ UNCHANGED <<service_vars, inventory_vars, turn, parked, subqueries, req, max_hops, walk, result, exc, lookups>>

Hop(seq, dev, ingress, ctx, res, notes) ==
    [sequence |-> seq, device |-> dev, ingress_interface |-> ingress,
     egress_interface |-> res.route.outgoing_interface, logical_context |-> ctx,
     route_used |-> res.route, notes |-> notes, resolve_status |-> "None",
     ingress_detail |-> res.ingress_detail, egress_detail |-> res.egress_detail,
     policy_result |-> res.policy_result, nat_result |-> res.nat_result]

\* the egress interface of a hop is not carried to the next hop
EgressForgotten(route) == "None"

\* line 170: previous_egress_interface = route.outgoing_interface
TrackEgress(route) == route.outgoing_interface

\* lines 136-192: record the hop, follow a DNAT, test for the terminal routes
RecordHop ==
    /\ pc = "record"
    /\ LET route == result.route
       IN  IF route = NoRoute
           THEN /\ Return([path EXCEPT
                     !.hops = Append(@, Hop(hop_sequence, current_device,
                                            previous_egress_interface, current_context,
                                            NoResult, "No route to destination")),
                     !.status = "incomplete", !.error_message = "No route"])
                /\ UNCHANGED <<working_destination, previous_egress_interface>>
           ELSE LET hop == Hop(hop_sequence, current_device, previous_egress_interface,
                               current_context, result, "")
                    p1 == [path EXCEPT !.hops = Append(@, hop)]
                    wd == FollowDnat(result.nat_result, working_destination)
                IN  /\ previous_egress_interface' = TrackEgress(route)
                    /\ working_destination' = wd
                    /\ IF is_destination_reached(route, wd)
                       THEN Return([p1 EXCEPT !.status = "complete"])
                       ELSE IF IsBlackHole(route)
                       THEN Return([p1 EXCEPT !.status = "blackholed",
                                              !.error_message = "Traffic black-holed"])
                       ELSE path' = p1 /\ pc' = "resolve"
    /\ subqueries' = NoSubqueries
    /\ UNCHANGED <<service_vars, inventory_vars, turn, parked, req, max_hops, current_device, current_context, visited, hop_sequence,
                   driver, result, exc, sessions, lookups, thrown, hops_at_throw>>

\* the ambiguity is reported at the hop just recorded
AmbiguousAtRecordedHop(seq) == seq

\* line 207: the sequence number the unresolved hop would have had
AmbiguousHopSequence(seq) == seq + 1

\* lines 194-225: resolve the next hop and move to it
ResolveNextHop ==
    /\ pc = "resolve"
    /\ LET route == result.route
           previous_hop == path.hops[Len(path.hops)]
           resolve_result == _resolve_device(route.next_hop, previous_hop.device)
       IN  IF resolve_result.status = "not_found"
           THEN /\ Return([path EXCEPT !.status = "incomplete",
                                       !.error_message = "Next hop device not found"])
                /\ UNCHANGED <<current_device, current_context, hop_sequence>>
           ELSE IF resolve_result.status = "ambiguous"
           THEN /\ Return([WithCandidates(path, "ambiguous_hop",
                                          "Next hop matches multiple devices",
                                          resolve_result.candidates)
                             EXCEPT !.metadata.ambiguous_hop_sequence =
                                          AmbiguousHopSequence(hop_sequence)])
                /\ UNCHANGED <<current_device, current_context, hop_sequence>>
           ELSE /\ current_device' = resolve_result.device
                /\ current_context' = _determine_next_context(current_context,
                                                              resolve_result.device)
                /\ hop_sequence' = NextSequence(hop_sequence)
                /\ pc' = "loop"
                /\ UNCHANGED path
    /\ UNCHANGED <<service_vars, inventory_vars, turn, parked, subqueries, req, max_hops, visited, working_destination, previous_egress_interface,
                   driver, result, exc, sessions, lookups, thrown, hops_at_throw>>

Next ==
    \/ Start
    \/ LoopTop
    \/ QueryDevice
    \/ Connect
    \/ GetRoute
    \/ Enrich
    \/ Exit
    \/ RecordHop
    \/ ResolveNextHop

Spec == Init /\ [][Next]_vars

\* ------------------------------------------- concurrent trace_path calls
\* several calls on one PathTracer, one thread each; the interpreter runs one
\* thread at a time and may switch between any two statements
MaxCalls == 2
Calls == 1..MaxCalls

\* the arguments of call c: odd calls start from the source's device, even calls
\* from R2 in vrfA
CallRequest(c) == IF c % 2 = 1 THEN Req(9, "None", "None") ELSE Req(9, "R2", "vrfA")

\* the place of the running call in parked
Running == [Entered(Req(NoIP, "None", "None")) EXCEPT !.pc = "running"]

\* the frame of the running call: the locals of trace_path and _query_device
Locals ==
    [req |-> req, pc |-> pc, path |-> path, current_device |-> current_device,
     current_context |-> current_context, visited |-> visited,
     hop_sequence |-> hop_sequence, working_destination |-> working_destination,
     previous_egress_interface |-> previous_egress_interface,
     driver |-> driver, result |-> result, exc |-> exc, sessions |-> sessions,
     lookups |-> lookups, subqueries |-> subqueries, thrown |-> thrown,
     hops_at_throw |-> hops_at_throw]

\* the driver object is kept on the PathTracer: a resumed call finds the driver
\* of whichever call ran last
ResumeWithSharedDriver(f) == [f EXCEPT !.driver = driver]

\* what a call finds in its locals when its thread runs again: what it left
\* there; the driver is a new object per _query_device call, held in a local
Resume(f) == f

\* the interpreter switches from the running thread to the thread of call c
Switch(c) ==
    /\ c # turn
    /\ parked[c].pc \notin {"returned", "raised"}
    /\ LET f == Resume(parked[c])
       IN  /\ req' = f.req
           /\ pc' = f.pc
           /\ path' = f.path
           /\ current_device' = f.current_device
           /\ current_context' = f.current_context
           /\ visited' = f.visited
           /\ hop_sequence' = f.hop_sequence
           /\ working_destination' = f.working_destination
           /\ previous_egress_interface' = f.previous_egress_interface
           /\ driver' = f.driver
           /\ result' = f.result
           /\ exc' = f.exc
           /\ sessions' = f.sessions
           /\ lookups' = f.lookups
           /\ subqueries' = f.subqueries
           /\ thrown' = f.thrown
           /\ hops_at_throw' = f.hops_at_throw
    /\ turn' = c
    /\ parked' = [parked EXCEPT ![turn] = Locals, ![c] = Running]
    /\ UNCHANGED <<service_vars, inventory_vars, max_hops>>

\* MaxCalls calls entered on a PathTracer configured with max_hops: 1
InitConcurrent ==
    /\ InitCall(CallRequest(1))
    /\ max_hops = 1
    /\ turn = 1
    /\ parked = [c \in Calls |-> IF c = 1 THEN Running ELSE Entered(CallRequest(c))]
    /\ Loaded

NextConcurrent ==
    \/ Next
    \/ \E c \in Calls : Switch(c)

SpecConcurrent == InitConcurrent /\ [][NextConcurrent]_vars

\* ----------------------------------------- walks that can only end by a stop
\* small inventories whose routes point back at their own devices: one router
\* that can route to itself, and two routers that can route to each other
LoopInventories ==
    { << Dev("R9", 5, "cisco_ios", "nyc", "router", "default", <<"global">>, << >>, "global") >>,
      << Dev("R9", 5, "cisco_ios", "nyc", "router", "default", <<"global">>, << >>, "global"),
         Dev("R3", 7, "cisco_ios", "nyc", "router", "default", <<"global">>, << >>, "global") >> }

\* calls that start on R9, by name or by address, in its default context or in
\* a context the caller names and R9 does not list
LoopRequests ==
    { Req(5, "None", "None"), Req(9, "R9", "None"), Req(9, "R9", "vrfX") }

InitLoop ==
    /\ \E r \in LoopRequests : InitCall(r)
    /\ max_hops \in 1..MaxHops
    /\ turn = 1
    /\ parked = << >>
    /\ \E inv \in LoopInventories :
          /\ devices = inv
          /\ subnet_map = SubnetMapOf(inv)
          /\ load_warnings = WarningsOf(inv)
    /\ found = NoLookup
    /\ Unserved

\* every driver call returns or raises, so a call that can take a step takes one
SpecLoop == InitLoop /\ [][Next]_vars /\ WF_vars(Next)

\* ------------------------------------------- building and asking an inventory
MaxDevices == 3

\* the devices an inventory is built from: the same subnet at one site and at
\* another, written with and without host bits, a longer prefix inside it, the
\* same subnet listed twice, the default network, and no subnet at all
DevicePool ==
    { Dev("A", 1, "cisco_ios",  "nyc",  "router", "default", <<"global">>, << Net(8, 2) >>,            "global"),
      Dev("B", 1, "cisco_ios",  "nyc",  "router", "default", <<"global">>, << Net(8, 2), Net(8, 1) >>, "global"),
      Dev("C", 2, "arista_eos", "sfo",  "router", "default", <<"global">>, << Net(10, 2) >>,           "global"),
      Dev("D", 3, "arista_eos", "None", "router", "default", <<"global">>, << Net(8, 2), Net(8, 2) >>, "global"),
      Dev("E", 4, "cisco_ios",  "sfo",  "router", "default", <<"global">>, << Net(0, AddrBits) >>,     "global"),
      Dev("F", 5, "cisco_ios",  "nyc",  "router", "default", <<"global">>, << >>,                      "global") }

\* the arguments of a lookup: every address, and a string that is no address
LookupIPs == 0..Pow2(AddrBits)

\* no trace_path call is running
Idle == [Entered(Req(NoIP, "None", "None")) EXCEPT !.pc = "idle"]

InitInventory ==
    /\ InitFrame(Idle)
    /\ max_hops = 1
    /\ turn = 1
    /\ parked = << >>
    /\ devices = << >>
    /\ subnet_map = << >>
    /\ load_warnings = << >>
    /\ found = NoLookup
    /\ Unserved

trace_vars == <<req, pc, path, walk, driver, result, exc, sessions, lookups,
                subqueries, thrown, hops_at_throw, max_hops, turn, parked>>

frame_vars == <<trace_vars, service_vars>>

AddDevice ==
    /\ Len(devices) < MaxDevices
    /\ \E device \in DevicePool : add_device(device)
    /\ found' = NoLookup
    /\ UNCHANGED frame_vars

FindDeviceForSubnet ==
    /\ \E ip \in LookupIPs :
          found' = [call |-> "find_device_for_subnet", arg |-> ip,
                    result |-> find_device_for_subnet(ip)]
    /\ UNCHANGED <<devices, subnet_map, load_warnings, frame_vars>>

FindDeviceByIP ==
    /\ \E ip \in LookupIPs :
          found' = [call |-> "find_device_by_ip", arg |-> ip,
                    result |-> find_device_by_ip(ip)]
    /\ UNCHANGED <<devices, subnet_map, load_warnings, frame_vars>>

NextInventory ==
    \/ AddDevice
    \/ FindDeviceForSubnet
    \/ FindDeviceByIP

SpecInventory == InitInventory /\ [][NextInventory]_vars

\* -------------------------------------- POST /traceroute/device-based
MaxDocument == 2

\* a string that is no address, and a short form such as "10.1" that
\* socket.inet_aton accepts although it is no dotted quad
NotAnAddress == Pow2(AddrBits)
ShortForm == Pow2(AddrBits) + 1

\* socket.inet_aton(s) does not raise
inet_aton(s) == s >= 0 /\ s # NotAnAddress

\* an entry of the `devices` list of the inventory document; a key that the
\* entry omits is "None" (has_logical_contexts FALSE for the list)
DeviceData(h, ip, has, ctxs, dvrf, dvr) ==
    [hostname |-> h, management_ip |-> ip, vendor |-> "cisco_ios", site |-> "nyc",
     device_type |-> "router", credentials_ref |-> "default",
     has_logical_contexts |-> has, logical_contexts |-> ctxs, subnets |-> << >>,
     default_vrf |-> dvrf, default_virtual_router |-> dvr]

DeviceEntries ==
    { DeviceData("R1", 1, FALSE, << >>, dvrf, dvr) :
        dvrf \in {"None", "vrfA"}, dvr \in {"None", "vr1"} }
    \cup { DeviceData("R2", 2, TRUE, ctxs, dvrf, dvr) :
             ctxs \in {<< >>, <<"vrfA">>, <<"global", "vrfA">>},
             dvrf \in {"None", "vrfA"}, dvr \in {"None", "vr1"} }

\* the well-formed inventory files, and no file at all
Documents ==
    {NoDocument}
    \cup { [exists |-> TRUE, devices |-> ds] :
             ds \in UNION { [1..n -> DeviceEntries] : n \in 0..MaxDocument } }

\* the source and destination of a request body: key missing, an address, a
\* string that is no address, a short form
BodyIPs(ip) == {NoIP, ip, NotAnAddress, ShortForm}

\* the NetworkDevice that load_from_file builds from an entry
NetworkDevice(device_data) ==
    Dev(device_data.hostname, device_data.management_ip, device_data.vendor,
        device_data.site, device_data.device_type, device_data.credentials_ref,
        IF device_data.has_logical_contexts
        THEN device_data.logical_contexts
        ELSE << IF device_data.default_vrf # "None"
                THEN device_data.default_vrf ELSE "global" >>,
        device_data.subnets,
        IF device_data.default_vrf # "None" THEN device_data.default_vrf
        ELSE IF device_data.default_virtual_router # "None"
             THEN device_data.default_virtual_router
        ELSE "global")

\* load_from_file(file_path): add_device for each entry of the file, in order
load_from_file(doc) ==
    LET loaded == [i \in 1..Len(doc.devices) |-> NetworkDevice(doc.devices[i])]
    IN  /\ devices' = loaded
        /\ subnet_map' = SubnetMapOf(loaded)
        /\ load_warnings' = WarningsOf(loaded)

Respond(code, error) ==
    http' = [http EXCEPT !.pc = "responded", !.code = code, !.error = error]

InitService ==
    /\ InitFrame(Idle)
    /\ max_hops = 1
    /\ turn = 1
    /\ parked = << >>
    /\ devices = << >>
    /\ subnet_map = << >>
    /\ load_warnings = << >>
    /\ found = NoLookup
    /\ document \in Documents
    /\ \E src \in BodyIPs(9), dst \in BodyIPs(Dest) :
          http = [pc |-> "received", source |-> src, destination |-> dst,
                  code |-> 0, error |-> "None"]

\* device_based_traceroute, lines 419-439: the body is read and checked
ValidateRequest ==
    /\ http.pc = "received"
    /\ IF http.source = NoIP \/ http.destination = NoIP
       THEN Respond(400, "Source and destination IPs required")
       ELSE IF ~inet_aton(http.source) \/ ~inet_aton(http.destination)
       THEN Respond(400, "Invalid IP address format")
       ELSE http' = [http EXCEPT !.pc = "validated"]
    /\ UNCHANGED <<document, inventory_vars, trace_vars>>

\* perform_device_trace up to its first raise, and the except clauses of
\* device_based_traceroute: a missing file raises FileNotFoundError;
\* DeviceInventory(inventory_file) loads the file in its constructor, and the
\* call load_from_file() that follows lacks the file_path argument
PerformDeviceTrace ==
    /\ http.pc = "validated"
    /\ IF ~document.exists
       THEN /\ Respond(404, "Inventory file not found")
            /\ UNCHANGED <<devices, subnet_map, load_warnings>>
       ELSE /\ load_from_file(document)
            /\ Respond(500, "load_from_file() missing 1 required positional argument: 'file_path'")
    /\ UNCHANGED <<document, found, trace_vars>>

NextService ==
    \/ ValidateRequest
    \/ PerformDeviceTrace

SpecService == InitService /\ [][NextService]_vars

\* ======================================================= properties
Returned == pc = "returned"

HopKey(h) == <<Inventory[h.device].management_ip, h.logical_context>>
HopKeys == {HopKey(path.hops[i]) : i \in 1..Len(path.hops)}
CurrentKey == <<Inventory[current_device].management_ip, current_context>>

\* the requested destination rewritten by every DNAT of the hops hs, read off the
\* hop records alone
RECURSIVE PostDnat(_)
PostDnat(hs) ==
    IF hs = << >> THEN req.destination_ip
    ELSE LET h == hs[Len(hs)]
         IN  IF h.nat_result.present /\ h.nat_result.dnat # NoIP
             THEN h.nat_result.dnat
             ELSE PostDnat(SubSeq(hs, 1, Len(hs) - 1))

\* C1: in every returned trace, whatever its status, the hops' sequence numbers
\* in list order are exactly 1, 2, ..., len(hops).
C1_SequenceContiguous ==
    Returned => \A i \in 1..Len(path.hops) : path.hops[i].sequence = i

C1_Witness ==
    /\ Returned
    /\ Len(path.hops) = 3
    /\ path.status = "loop_detected"

\* C2: no two hops of a trace have the same (management IP, context) pair, no
\* pair is queried twice, and a walk that arrives at a pair already visited
\* stops there with status loop_detected without another query.
C2_NoPairTwice ==
    /\ [](\A i, j \in 1..Len(path.hops) :
            i # j => HopKey(path.hops[i]) # HopKey(path.hops[j]))
    /\ [](\A i, j \in 1..Len(lookups) :
            i # j => <<Inventory[lookups[i].device].management_ip, lookups[i].context>>
                     # <<Inventory[lookups[j].device].management_ip, lookups[j].context>>)
    /\ [][(pc = "loop" /\ CurrentKey \in visited)
            => (pc' = "returned" /\ path'.status = "loop_detected"
                /\ lookups' = lookups /\ path'.hops = path.hops)]_vars

C2_Witness ==
    /\ Returned
    /\ path.status = "loop_detected"
    /\ Len(path.hops) = 2
    /\ Len(lookups) = 2
    /\ CurrentKey = HopKey(path.hops[1])

\* C3 as stated: the hop count never exceeds max_hops, and a walk that would
\* need a hop numbered max_hops + 1 stops with status max_hops_exceeded.
C3_Original ==
    /\ Len(path.hops) <= max_hops
    /\ (Returned /\ hop_sequence > max_hops) => path.status = "max_hops_exceeded"

\* C3 amended: the hop count never exceeds max_hops; a walk that arrives, for a
\* hop numbered max_hops + 1, at a pair not yet visited stops with status
\* max_hops_exceeded, and at a pair already visited with status loop_detected.
C3_HopLimit ==
    /\ Len(path.hops) <= max_hops
    /\ (Returned /\ hop_sequence > max_hops) =>
          /\ Len(path.hops) = max_hops
          /\ path.status = (IF CurrentKey \in HopKeys THEN "loop_detected"
                            ELSE "max_hops_exceeded")

C3_Witness ==
    /\ Returned
    /\ path.status = "max_hops_exceeded"
    /\ max_hops = 2
    /\ Len(path.hops) = 2

\* C4: the last hop of a complete trace has a route of kind connected or local,
\* or one whose next hop is the requested destination rewritten by every DNAT
\* seen up to and including that hop.
C4_CompleteReached ==
    (Returned /\ path.status = "complete") =>
        /\ Len(path.hops) >= 1
        /\ LET last == path.hops[Len(path.hops)]
           IN  \/ last.route_used.next_hop_type \in {"connected", "local"}
               \/ last.route_used.next_hop = PostDnat(path.hops)

C4_Witness ==
    /\ Returned
    /\ path.status = "complete"
    /\ Len(path.hops) = 2
    /\ path.hops[2].route_used.next_hop_type = "ip"
    /\ path.hops[2].route_used.next_hop = NatIP
    /\ HasDnat(path.hops[1].nat_result)

\* C5 as stated: every needs_input or ambiguous_hop trace carries a non-empty
\* candidate list.
C5_Original ==
    (Returned /\ path.status \in {"needs_input", "ambiguous_hop"}) =>
        /\ path.metadata.has_candidates
        /\ path.metadata.candidates # << >>

\* C5 amended: every needs_input or ambiguous_hop trace carries a candidate list;
\* it has at least two entries, except in a needs_input trace whose source IP
\* matches no inventory device, where it is empty.
C5_Candidates ==
    (Returned /\ path.status \in {"needs_input", "ambiguous_hop"}) =>
        /\ path.metadata.has_candidates
        /\ IF /\ path.status = "needs_input"
              /\ \A d \in DeviceIds :
                    /\ Inventory[d].management_ip # req.source_ip
                    /\ \A k \in 1..Len(Inventory[d].subnets) :
                          ~ip_in_network(req.source_ip, Inventory[d].subnets[k])
           THEN path.metadata.candidates = << >>
           ELSE Len(path.metadata.candidates) >= 2

C5_Witness ==
    /\ Returned
    /\ path.status = "ambiguous_hop"
    /\ Len(path.metadata.candidates) = 2
    /\ Len(path.hops) >= 1

\* C6 as stated: a loop_detected trace has two positions i < j in its hop list
\* with the same (management IP, context) pair.
C6_Original ==
    (Returned /\ path.status = "loop_detected") =>
        \E i, j \in 1..Len(path.hops) :
            i < j /\ HopKey(path.hops[i]) = HopKey(path.hops[j])

\* C6 amended: in a loop_detected trace the (management IP, context) pair the
\* walk arrived at after its last hop equals the pair of a hop in the list; the
\* arrival itself is not recorded as a hop.
C6_LoopRevisits ==
    (Returned /\ path.status = "loop_detected") =>
        /\ \E i \in 1..Len(path.hops) : HopKey(path.hops[i]) = CurrentKey
        /\ hop_sequence = Len(path.hops) + 1

C6_Witness ==
    /\ Returned
    /\ path.status = "loop_detected"
    /\ Len(path.hops) = 3
    /\ HopKey(path.hops[2]) = CurrentKey

\* C7: trace_path never raises; an exception thrown during the walk gives a
\* returned trace with status error, the exception's message, the elapsed time
\* set and exactly the hops recorded before the failure.
C7_NeverRaises ==
    /\ pc # "raised"
    /\ Returned => path.total_time_set
    /\ (Returned /\ thrown # NoExc) =>
          /\ path.status = "error"
          /\ path.error_message = thrown.msg
          /\ path.hops = hops_at_throw
    /\ (Returned /\ path.status = "error") => thrown # NoExc

C7_Witness ==
    /\ Returned
    /\ path.status = "error"
    /\ thrown.cls = "CommandError"
    /\ Len(path.hops) = 2

\* C8: every route lookup uses the requested destination rewritten by the DNATs
\* of the hops before it (the requested destination itself when there is none),
\* and the destination-reached test of a hop uses the destination rewritten by
\* that hop's own DNAT as well.
C8_WorkingDestination ==
    /\ \A k \in 1..Len(lookups) :
          /\ Len(path.hops) >= k - 1
          /\ lookups[k].destination = PostDnat(SubSeq(path.hops, 1, k - 1))
    /\ \A i \in 1..Len(path.hops) :
          (path.hops[i].route_used.next_hop = PostDnat(SubSeq(path.hops, 1, i)))
             => (i = Len(path.hops) /\ (Returned => path.status = "complete"))
    /\ pc \in {"resolve", "loop", "query"} /\ path.hops # << >>
          => working_destination = PostDnat(path.hops)

C8_Witness ==
    /\ Len(lookups) = 3
    /\ lookups[1].destination = Dest
    /\ lookups[2].destination = NatIP
    /\ lookups[3].destination = Dest
    /\ Returned
    /\ path.status = "complete"

\* C9: no device session opened by a trace is still open when trace_path returns.
C9_SessionsReleased ==
    Returned => sessions = {}

\* C10: at most one device session is open at any time, and the session of a hop
\* is closed before the hop is recorded, the next hop resolved or another
\* session opened.
C10_OneSession ==
    /\ Cardinality(sessions) <= 1
    /\ pc \in {"record", "resolve", "loop", "query", "connect"} => sessions = {}
    /\ \A n \in sessions : n = hop_sequence

C10_Witness ==
    /\ pc = "get_route"
    /\ hop_sequence = 2
    /\ sessions = {2}
    /\ Len(path.hops) = 1

\* the frame of call c, running or not
FrameOf(c) == IF c = turn THEN Locals ELSE parked[c]

ByManagementIP(ip) == {d \in DeviceIds : Inventory[d].management_ip = ip}
BySubnet(ip) ==
    {d \in DeviceIds : \E k \in 1..Len(Inventory[d].subnets) :
        /\ ip_in_network(ip, Inventory[d].subnets[k])
        /\ \A e \in DeviceIds : \A j \in 1..Len(Inventory[e].subnets) :
              ip_in_network(ip, Inventory[e].subnets[j])
                 => Inventory[e].subnets[j][2] <= Inventory[d].subnets[k][2]}
CandidatesOf(ip) == IF ByManagementIP(ip) # {} THEN ByManagementIP(ip) ELSE BySubnet(ip)

\* the trace ends ambiguous_hop among exactly the devices ds
AmbiguousAmong(p, ds) ==
    /\ p.status = "ambiguous_hop"
    /\ Len(p.metadata.candidates) = Cardinality(ds)
    /\ {p.metadata.candidates[i].hostname : i \in 1..Len(p.metadata.candidates)}
          = {Inventory[d].hostname : d \in ds}

\* C12: the next hop's candidates are the devices with the next-hop IP as
\* management IP, or the longest-prefix subnet owners only when there is none;
\* with several candidates and a site tag on the current hop's device, exactly
\* one same-site candidate becomes the next device, several same-site candidates
\* end the trace ambiguous among those only, none ends it ambiguous among all;
\* without a site tag several candidates are ambiguous among all.
C12_SiteAffinity ==
    [][pc = "resolve" =>
        LET cands == CandidatesOf(result.route.next_hop)
            site == Inventory[path.hops[Len(path.hops)].device].site
            same == {c \in cands : Inventory[c].site = site}
        IN  /\ Cardinality(cands) = 1 =>
                  pc' = "loop" /\ current_device' \in cands /\ path' = path
            /\ (Cardinality(cands) > 1 /\ site # "None" /\ Cardinality(same) = 1) =>
                  pc' = "loop" /\ current_device' \in same /\ path' = path
            /\ (Cardinality(cands) > 1 /\ site # "None" /\ Cardinality(same) > 1) =>
                  pc' = "returned" /\ AmbiguousAmong(path', same)
            /\ (Cardinality(cands) > 1 /\ (site = "None" \/ same = {})) =>
                  pc' = "returned" /\ AmbiguousAmong(path', cands)]_vars

\* R1 (nyc) routes to an address that is the management IP of two nyc devices
\* and one sfo device: ambiguous among the two
C12_Witness ==
    /\ Returned
    /\ path.status = "ambiguous_hop"
    /\ Len(path.hops) = 1
    /\ Cardinality(ByManagementIP(result.route.next_hop)) = 3
    /\ Len(path.metadata.candidates) = 2

\* C13: a hop whose device was chosen by site affinity (the previous hop's next
\* hop had several candidates) carries resolve_status = resolved_by_site.
C13_ResolvedBySite ==
    \A i \in 2..Len(path.hops) :
        Cardinality(CandidatesOf(path.hops[i - 1].route_used.next_hop)) > 1
            => path.hops[i].resolve_status = "resolved_by_site"

\* the serialised form of the devices ds, in any order
SerialisedSet(ds) ==
    {[hostname |-> Inventory[d].hostname, management_ip |-> Inventory[d].management_ip,
      site |-> Inventory[d].site, vendor |-> Inventory[d].vendor] : d \in ds}

\* C15: with no start device, a source IP that stands for no device or for
\* several ends the trace at once with status needs_input and no hop, the
\* candidates being [] or the serialised list of exactly those devices (of any
\* site); no driver is built, no session opened and no route looked up.
C15_NeedsInput ==
    [][(pc = "start" /\ req.start_device = "None"
          /\ Cardinality(CandidatesOf(req.source_ip)) # 1) =>
        LET cands == CandidatesOf(req.source_ip)
            got == path'.metadata.candidates
        IN  /\ pc' = "returned"
            /\ path'.status = "needs_input"
            /\ path'.hops = << >>
            /\ path'.metadata.has_candidates
            /\ Len(got) = Cardinality(cands)
            /\ {got[i] : i \in 1..Len(got)} = SerialisedSet(cands)
            /\ driver' = NoDriver
            /\ sessions' = {}
            /\ lookups' = << >>]_vars

\* the source is the address of a nyc device and of an sfo device
C15_Witness ==
    /\ Returned
    /\ path.status = "needs_input"
    /\ path.hops = << >>
    /\ Len(path.metadata.candidates) = 2
    /\ path.metadata.candidates[1].site # path.metadata.candidates[2].site
    /\ lookups = << >>

\* C16: after a hop whose route neither reaches the destination nor is a black
\* hole, a next hop that stands for no device ends the trace with status
\* incomplete, and one that stays ambiguous ends it with status ambiguous_hop,
\* the ambiguous candidates in the metadata and ambiguous_hop_sequence one above
\* the sequence number of the last recorded hop.
C16_UnresolvedNextHop ==
    [][pc = "resolve" =>
        LET last == path.hops[Len(path.hops)]
            cands == CandidatesOf(last.route_used.next_hop)
            site == Inventory[last.device].site
            same == {c \in cands : Inventory[c].site = site}
            left == IF site # "None" /\ same # {} THEN same ELSE cands
            got == path'.metadata.candidates
        IN  /\ ~is_destination_reached(last.route_used, working_destination)
            /\ last.route_used.next_hop_type \notin {"null", "reject"}
            /\ cands = {} =>
                  /\ pc' = "returned"
                  /\ path'.status = "incomplete"
                  /\ path'.hops = path.hops
            /\ (Cardinality(cands) > 1 /\ Cardinality(left) > 1) =>
                  /\ pc' = "returned"
                  /\ path'.status = "ambiguous_hop"
                  /\ path'.hops = path.hops
                  /\ Len(got) = Cardinality(left)
                  /\ {got[i] : i \in 1..Len(got)} = SerialisedSet(left)
                  /\ path'.metadata.ambiguous_hop_sequence = last.sequence + 1]_vars

C16_Witness ==
    /\ Returned
    /\ path.status = "ambiguous_hop"
    /\ Len(path.hops) = 2
    /\ path.metadata.ambiguous_hop_sequence = 3
    /\ Len(path.metadata.candidates) = 2

\* C17 as stated: a hop whose route has next-hop kind null or reject is recorded
\* and ends the trace with status blackholed, without any resolution or query
\* after it.
C17_Original ==
    [][(pc = "record" /\ result.route.next_hop_type \in {"null", "reject"}) =>
        /\ pc' = "returned"
        /\ Len(path'.hops) = Len(path.hops) + 1
        /\ path'.hops[Len(path'.hops)].route_used = result.route
        /\ lookups' = lookups
        /\ path'.status = "blackholed"]_vars

\* C17 amended: such a hop is recorded and ends the trace without any resolution
\* or query after it; the status is blackholed unless the route's next hop is
\* the working destination (after this hop's DNAT), which the destination-reached
\* test, made first, turns into complete.
C17_BlackHole ==
    [][(pc = "record" /\ result.route.next_hop_type \in {"null", "reject"}) =>
        /\ pc' = "returned"
        /\ Len(path'.hops) = Len(path.hops) + 1
        /\ path'.hops[Len(path'.hops)].route_used = result.route
        /\ lookups' = lookups
        /\ path'.status = (IF result.route.next_hop = PostDnat(path'.hops)
                            THEN "complete" ELSE "blackholed")]_vars

C17_Witness ==
    /\ Returned
    /\ path.status = "blackholed"
    /\ Len(path.hops) = 2
    /\ path.hops[2].route_used.next_hop_type = "reject"

\* the enrichment sub-queries a hop asks for when none of them fails
Wanted(d, route, ingress) ==
    (IF route.outgoing_interface # "None" THEN {"egress"} ELSE {})
    \cup (IF ingress # "None" THEN {"ingress"} ELSE {})
    \cup (IF Inventory[d].vendor \in FIREWALL_VENDORS \/ Inventory[d].device_type = "firewall"
          THEN (IF ingress # "None" THEN {"izone"} ELSE {})
               \cup (IF route.outgoing_interface # "None" THEN {"ezone"} ELSE {})
               \cup (IF ingress # "None" /\ route.outgoing_interface # "None"
                        /\ req.source_ip # NoIP THEN {"policy"} ELSE {})
               \cup (IF req.source_ip # NoIP THEN {"nat"} ELSE {})
          ELSE {})

\* the hop field a sub-query fills is none
FieldIsNone(res, q) ==
    CASE q = "egress"  -> res.egress_detail = "None"
      [] q = "ingress" -> res.ingress_detail = "None"
      [] q = "policy"  -> res.policy_result = "None"
      [] q = "nat"     -> ~res.nat_result.present
      [] OTHER         -> TRUE

\* the hop has been enriched and is about to be recorded
Enriched == pc \in {"exit", "record"} /\ result.route # NoRoute

\* a failing sub-query leaves the trace's status and hops alone, and the hop is
\* recorded with its route and with the fields the enrichment produced
EnrichmentNeverAborts ==
    /\ pc = "enrich" =>
          pc' = "exit" /\ exc' = NoExc /\ path' = path /\ result'.route = result.route
    /\ (pc = "exit" /\ result.route # NoRoute) => pc' = "record" /\ path' = path
    /\ (pc = "record" /\ result.route # NoRoute) =>
          /\ Len(path'.hops) = Len(path.hops) + 1
          /\ SubSeq(path'.hops, 1, Len(path.hops)) = path.hops
          /\ path'.status # "error"
          /\ LET h == path'.hops[Len(path'.hops)]
             IN  /\ h.route_used = result.route
                 /\ h.egress_detail = result.egress_detail
                 /\ h.ingress_detail = result.ingress_detail
                 /\ h.policy_result = result.policy_result
                 /\ h.nat_result = result.nat_result

\* C18 as stated: a raising enrichment sub-query never changes the status or
\* the hops; the hop is recorded with its route, only the field of a sub-query
\* that raised is none, and every other sub-query of the hop is still made.
C18_Original ==
    /\ [](Enriched =>
            LET wanted == Wanted(current_device, result.route, previous_egress_interface)
            IN  /\ subqueries.called = wanted
                /\ \A q \in {"egress", "ingress", "policy", "nat"} :
                      FieldIsNone(result, q) <=> (q \notin wanted \/ q \in subqueries.raised))
    /\ [][EnrichmentNeverAborts]_vars

\* C18 amended: a raising enrichment sub-query never changes the status or the
\* hops and the hop is recorded with its route; every other sub-query of the hop
\* is still made, except the policy lookup after a zone query that raised; the
\* field of a sub-query is none exactly when it raised or was not made.
C18_BestEffort ==
    /\ [](Enriched =>
            LET wanted == Wanted(current_device, result.route, previous_egress_interface)
                skipped == IF subqueries.raised \cap {"izone", "ezone"} # {}
                           THEN {"policy"} ELSE {}
            IN  /\ subqueries.called = wanted \ skipped
                /\ subqueries.raised \subseteq subqueries.called
                /\ \A q \in {"egress", "ingress", "policy", "nat"} :
                      FieldIsNone(result, q) <=>
                          (q \notin subqueries.called \/ q \in subqueries.raised))
    /\ [][EnrichmentNeverAborts]_vars

\* hop 2 is a firewall entered and left through known interfaces: the ingress
\* detail query raised and a zone or policy query raised, the egress detail and
\* the NAT result are there and the trace went on to completion
C18_Witness ==
    /\ Returned
    /\ path.status = "complete"
    /\ Len(path.hops) = 3
    /\ path.hops[2].ingress_interface # "None"
    /\ path.hops[2].egress_interface # "None"
    /\ path.hops[2].nat_result.present
    /\ path.hops[2].policy_result = "None"
    /\ path.hops[2].ingress_detail = "None"
    /\ path.hops[2].egress_detail = "detail"

\* C19: when the first hop is a firewall whose rulebase permits the flow and
\* which answers a route out of an interface and a DNAT result, the record of
\* hop 1 carries policy_result permit.
C19_FirstHopPolicy ==
    [][(/\ pc = "record"
        /\ hop_sequence = 1
        /\ Inventory[current_device].device_type = "firewall"
        /\ subqueries.policy = "allow"
        /\ result.route.next_hop_type = "ip"
        /\ result.route.outgoing_interface # "None"
        /\ result.nat_result.present /\ result.nat_result.dnat # NoIP)
          => path'.hops[1].policy_result = "permit"]_vars

\* C20: hop 1 runs in the initial context of the request when there is one and
\* in the start device's default context otherwise; every later hop runs in the
\* context of the hop before it when the device lists that context, and in the
\* device's default context otherwise; each route lookup uses its hop's context.
C20_Contexts ==
    /\ \A i \in 1..Len(path.hops) :
          LET h == path.hops[i]
              dev == Inventory[h.device]
          IN  /\ i = 1 =>
                    h.logical_context = (IF req.initial_context # "None"
                                         THEN req.initial_context ELSE dev.default_context)
              /\ i > 1 =>
                    h.logical_context =
                        (IF \E k \in 1..Len(dev.logical_contexts) :
                               dev.logical_contexts[k] = path.hops[i - 1].logical_context
                         THEN path.hops[i - 1].logical_context
                         ELSE dev.default_context)
              /\ Len(lookups) >= i
              /\ lookups[i].context = h.logical_context
              /\ lookups[i].device = h.device

\* a walk entered in vrfA stays in vrfA on a device that lists it and whose
\* default is another context
C20_Witness ==
    /\ Len(path.hops) = 2
    /\ req.initial_context = "vrfA"
    /\ path.hops[1].logical_context = "vrfA"
    /\ path.hops[2].logical_context = "vrfA"
    /\ Inventory[path.hops[2].device].default_context = "global"
    /\ path.hops[2].device # path.hops[1].device

\* the subnets of the inventory that contain x, as <<device, entry>>
Containing(x) ==
    {p \in SubnetSlots(devices) : ip_in_network(x, SlotSubnet(devices, p))}

\* C14: find_device_for_subnet(x) is empty when no inventory subnet contains x;
\* otherwise it is non-empty and every device in it owns a subnet that contains
\* x and has the greatest prefix length among the inventory subnets containing x.
C14_LongestPrefix ==
    found.call = "find_device_for_subnet" =>
        LET x == found.arg
        IN  IF Containing(x) = {}
            THEN found.result = << >>
            ELSE /\ found.result # << >>
                 /\ \A i \in 1..Len(found.result) :
                       \E p \in Containing(x) :
                          /\ p[1] = found.result[i]
                          /\ \A q \in Containing(x) :
                                SlotSubnet(devices, q)[2] <= SlotSubnet(devices, p)[2]

\* an address inside subnets of two prefix lengths, the longer one owned by one
\* device of three
C14_Witness ==
    /\ found.call = "find_device_for_subnet"
    /\ Len(devices) = 3
    /\ Cardinality({SlotSubnet(devices, p)[2] : p \in Containing(found.arg)}) = 2
    /\ Len(found.result) = 1
    /\ Cardinality({p[1] : p \in Containing(found.arg)}) = 3

\* C21: a connect() that fails raises AuthenticationError for an authentication
\* failure and DeviceConnectionError for any other failure; credentials with
\* neither a password nor an SSH key make it raise AuthenticationError.
C21_ConnectErrors ==
    [][(pc = "connect" /\ driver.cls # "CiscoFTDDriver" /\ pc' # "get_route") =>
          LET cred == get_credentials(Inventory[current_device].credentials_ref).cred
          IN  /\ thrown'.cls \in {"AuthenticationError", "DeviceConnectionError"}
              /\ (~cred.has_key /\ ~cred.has_password) =>
                    thrown'.cls = "AuthenticationError"
              /\ thrown'.msg = "Authentication failed" =>
                    thrown'.cls = "AuthenticationError"
              /\ thrown'.msg \in {"Connection timeout", "Failed to connect"} =>
                    thrown'.cls = "DeviceConnectionError"]_vars

\* C22: the endpoint answers 400 when the source or the destination is missing
\* or is no valid IP, 404 when the inventory file is missing, and 200 with a
\* trace for two valid IPs and an existing, well-formed inventory file.
C22_StatusCodes ==
    http.pc = "responded" =>
        LET wellformed == is_valid_ip(http.source) /\ is_valid_ip(http.destination)
        IN  /\ ~wellformed => http.code = 400
            /\ (wellformed /\ ~document.exists) => http.code = 404
            /\ (wellformed /\ document.exists) => http.code = 200

\* C23: every device loaded from an inventory document has a non-empty list of
\* logical contexts that contains its default context; an entry without
\* logical_contexts gets [default_vrf], else [default_virtual_router], else
\* ["global"].
C23_LogicalContexts ==
    (http.pc = "responded" /\ http.code = 500) =>
        \A i \in 1..Len(devices) :
            LET entry == document.devices[i]
                ctxs == devices[i].logical_contexts
            IN  /\ Len(ctxs) >= 1
                /\ \E k \in 1..Len(ctxs) : ctxs[k] = devices[i].default_context
                /\ ~entry.has_logical_contexts =>
                      ctxs = << IF entry.default_vrf # "None" THEN entry.default_vrf
                                ELSE IF entry.default_virtual_router # "None"
                                     THEN entry.default_virtual_router
                                ELSE "global" >>

\* one of the two subnets equals or contains the other
Overlapping(s, t) ==
    LET plen == IF s[2] < t[2] THEN s[2] ELSE t[2]
    IN  s[1] \div Pow2(AddrBits - plen) = t[1] \div Pow2(AddrBits - plen)

\* some warning of the list names the two devices
WarnedAbout(kind, i, j) ==
    \E n \in 1..Len(load_warnings) :
        /\ load_warnings[n].kind = kind
        /\ {load_warnings[n].existing, load_warnings[n].device}
              = {devices[i].hostname, devices[j].hostname}

\* C24: after any sequence of additions the warning list has a warning for every
\* two devices of different hostnames with the same management IP and for every
\* two devices of one site that own overlapping subnets.
C24_Warnings ==
    \A i \in 1..Len(devices), j \in 1..Len(devices) :
        i < j =>
            /\ (/\ devices[i].hostname # devices[j].hostname
                /\ devices[i].management_ip = devices[j].management_ip)
                  => WarnedAbout("Duplicate management IP", i, j)
            /\ (/\ devices[i].site # "None"
                /\ devices[i].site = devices[j].site
                /\ \E a \in 1..Len(devices[i].subnets), b \in 1..Len(devices[j].subnets) :
                      Overlapping(devices[i].subnets[a], devices[j].subnets[b]))
                  => WarnedAbout("Overlapping subnet", i, j)

\* C25: the action of a parsed policy result is permit, deny or drop: the
\* printed action with allow mapped to permit and deny and drop left as they are.
C25_PolicyAction ==
    (Enriched /\ "policy" \in subqueries.called \ subqueries.raised) =>
        /\ result.policy_result \in {"permit", "deny", "drop"}
        /\ result.policy_result =
              (IF subqueries.policy = "allow" THEN "permit" ELSE subqueries.policy)

\* C26: in every returned trace the first hop has no ingress interface and the
\* ingress interface of each later hop is the outgoing interface of the route
\* used at the hop before it.
C26_IngressFollowsEgress ==
    Returned =>
        \A i \in 1..Len(path.hops) :
            /\ i = 1 => path.hops[i].ingress_interface = "None"
            /\ i > 1 => path.hops[i].ingress_interface
                            = path.hops[i - 1].route_used.outgoing_interface

\* a returned trace of three hops whose second and third hops were entered
\* through the interface the hop before them sent the packet out of
C26_Witness ==
    /\ Returned
    /\ Len(path.hops) = 3
    /\ path.hops[2].ingress_interface # "None"
    /\ path.hops[3].ingress_interface # "None"
    /\ path.hops[3].ingress_interface = path.hops[2].egress_interface

Terminated == pc \in {"returned", "raised"}

Smaller(a, b) == IF a < b THEN a ELSE b

\* the (management IP, context) pairs of the inventory
InventoryPairs ==
    UNION { { <<devices[d].management_ip, devices[d].logical_contexts[k]>> :
                k \in 1..Len(devices[d].logical_contexts) } : d \in 1..Len(devices) }

\* the start device is visited in the context the caller names, listed or not
ExtraPairs == IF req.initial_context # "None" THEN 1 ELSE 0

TerminalHop(hs, i) ==
    \/ hs[i].route_used = NoRoute
    \/ hs[i].route_used.next_hop_type \in {"connected", "local", "null", "reject"}
    \/ hs[i].route_used.next_hop = PostDnat(SubSeq(hs, 1, i))

\* the walk was stopped by the hop limit after max_hops hops, none of which
\* ends a walk, and nothing else stops a walk with this status
StoppedByHopLimit ==
    /\ (Returned /\ path.status = "max_hops_exceeded") =>
          /\ Len(path.hops) = max_hops
          /\ hop_sequence = max_hops + 1
          /\ \A i \in 1..Len(path.hops) : ~TerminalHop(path.hops, i)
          /\ LET last == path.hops[Len(path.hops)]
             IN  /\ find_device_by_ip(last.route_used.next_hop) # << >>
                    \/ find_device_for_subnet(last.route_used.next_hop) # << >>
                 /\ devices[current_device].management_ip = last.route_used.next_hop
                    \/ \E k \in 1..Len(devices[current_device].subnets) :
                          ip_in_network(last.route_used.next_hop,
                                        devices[current_device].subnets[k])
    /\ (Returned /\ hop_sequence <= max_hops) => path.status # "max_hops_exceeded"

\* C28 as stated: max_hops_exceeded is returned only when exactly max_hops hops
\* were recorded and the last of them resolved to a further device that was not
\* visited yet; an outcome that arises at or before hop max_hops is reported.
C28_Original ==
    /\ StoppedByHopLimit
    /\ (Returned /\ path.status = "max_hops_exceeded") =>
          \A i \in 1..Len(path.hops) : path.hops[i].device # current_device

\* C28 amended: max_hops_exceeded is returned only when exactly max_hops hops
\* were recorded and the last of them resolved to a device whose (management
\* IP, context) pair was not visited yet, be it a device of an earlier hop in
\* another context; an outcome that arises at or before hop max_hops is reported.
C28_HopLimitOnly ==
    /\ StoppedByHopLimit
    /\ (Returned /\ path.status = "max_hops_exceeded") => CurrentKey \notin HopKeys

\* the hop limit stops a walk that came back to the device of hop 1 in another
\* context
C28_Witness ==
    /\ Returned
    /\ path.status = "max_hops_exceeded"
    /\ Len(path.hops) = 2
    /\ max_hops = 2
    /\ path.hops[1].device = current_device
    /\ path.hops[1].logical_context # current_context

\* C29: in every returned trace no hop before the last ends a walk, only the
\* last hop of an incomplete trace lacks a route, a needs_input trace has no
\* hop, and a complete, blackholed or ambiguous_hop trace has at least one.
C29_StopsAtFirstTerminalHop ==
    Returned =>
        /\ \A i \in 1..Len(path.hops) :
              /\ i < Len(path.hops) => ~TerminalHop(path.hops, i)
              /\ path.hops[i].route_used = NoRoute =>
                    i = Len(path.hops) /\ path.status = "incomplete"
        /\ path.status = "needs_input" => Len(path.hops) = 0
        /\ path.status \in {"complete", "blackholed", "ambiguous_hop"} =>
              Len(path.hops) >= 1

\* a three-hop trace that ends at its first terminal hop, after a DNAT changed
\* the working destination on the way
C29_Witness ==
    /\ Returned
    /\ path.status = "complete"
    /\ Len(path.hops) = 3
    /\ PostDnat(path.hops) # req.destination_ip
    /\ TerminalHop(path.hops, 3)

\* C30: find_device_for_subnet never returns a device more than once, so an IP
\* that only one device's subnets contain resolves to that device and is not
\* ambiguous.
C30_NoDeviceTwice ==
    found.call = "find_device_for_subnet" =>
        /\ \A i, j \in 1..Len(found.result) :
              i # j => found.result[i] # found.result[j]
        /\ (/\ Cardinality({found.result[i] : i \in 1..Len(found.result)}) = 1
            /\ find_device_by_ip(found.arg) = << >>)
              => _resolve_device(found.arg, NoDevice).status = "resolved"

====
